---- MODULE Spec2Model ----
(***************************************************************************)
(* Model of the multi-channel ANPR orchestrator:                           *)
(*   anpr/workers/channel_worker.py  ChannelWorker (one thread per channel)*)
(*   anpr/ui/main_window.py          MainWindow (the pool of workers)      *)
(* Every worker thread is a process whose position (pc) is the statement   *)
(* of _loop / _process_events / run it is about to execute.  The main      *)
(* thread is a process that executes _start_channels, _stop_workers and    *)
(* closeEvent.  Collaborator calls (pipeline construction, capture open,   *)
(* read, track, process_frame, insert) return or raise nondeterministically*)
(***************************************************************************)
EXTENDS Integers, Sequences, FiniteSets, TLC

\* ---------------------------------------------------------------- bounds
\* frames successfully read, over all workers
MaxFrames == 2
\* recognition results returned by process_frame, over all frames
MaxResults == 2
\* the same two, for the runs checked for liveness
MaxLiveFrames == 1
MaxLiveResults == 1
\* the pool runs: start-all commands, frames read and results returned in a run
MaxCycles == 2
MaxPoolFrames == 1
MaxPoolResults == 1

\* ------------------------------------------------------- configuration
\* the channel lists settings.get_channels() may hold (name, source)
Gate1 == [name |-> "Gate1", source |-> "0"]
Gate2 == [name |-> "Gate2", source |-> "rtsp://gate2"]
AllChannels == << Gate1, Gate2 >>
ChannelLists == { SubSeq(AllChannels, 1, n) : n \in 1 .. Len(AllChannels) }

\* channel_conf.get("name", "Канал")
ChannelName(conf) == IF "name" \in DOMAIN conf THEN conf.name ELSE "Channel"

\* str(channel_conf.get("source", "0"))
SourceOf(conf) == IF "source" \in DOMAIN conf THEN conf.source ELSE "0"

\* status texts emitted on status_ready
NoSignal == "no signal"
StreamStopped == "stream stopped"
\* f"Ошибка: {exc}": the text carries the cause
ErrorText(e) ==
  CASE e = "build" -> "error: build"
    [] e = "open" -> "error: open"
    [] e = "read" -> "error: read"
    [] e = "track" -> "error: track"
    [] e = "process" -> "error: process"
    [] e = "insert" -> "error: insert"
    [] OTHER -> "error"

\* the collaborator calls that may raise, named by the call that raised
Causes == {"build", "open", "read", "track", "process", "insert"}

\* recognition results (dicts returned by pipeline.process_frame)
Texts == {"", "AB123CD"}
Confidences == {30, 92}
RecResults == [unreadable : BOOLEAN, text : Texts, confidence : Confidences]

\* the loop variable of _process_events outside the loop
NoResult == [unreadable |-> FALSE, text |-> "", confidence |-> 0]

\* the event dict before it is assembled; id 0 stands for "no id assigned"
NoEvent == [id |-> 0, channel |-> "", plate |-> "", confidence |-> 0, source |-> ""]

\* the three signals of a worker; one record shape for all notifications
StatusNote(name, text) ==
  [kind |-> "status", channel |-> name, text |-> text, image |-> 0, event |-> NoEvent]
EventNote(ev) ==
  [kind |-> "event", channel |-> ev.channel, text |-> "", image |-> 0, event |-> ev]
FrameNote(name, img) ==
  [kind |-> "frame", channel |-> name, text |-> "", image |-> img, event |-> NoEvent]

VARIABLES
  channel_workers,  \* MainWindow.channel_workers: the list of pooled workers
  mainPc,           \* position of the main thread
  mainIdx,          \* index of the for loop of _stop_workers
  mainOp,           \* the handler the main thread is in: "start" or "close"
  channels,         \* settings.get_channels()
  nworkers,         \* workers constructed so far
  horizon,          \* what a run covers: start-all commands, frames read, results
  delivered,        \* per worker, how many of its notifications the slots of the
                    \* window have handled
  pc,               \* position of each worker thread
  running,          \* ChannelWorker._running
  channel_conf,     \* ChannelWorker.channel_conf
  capture,          \* the local capture of _loop: "unset" before the open, "null"
                    \* (None), "open" or "released"
  releases,         \* how often capture.release() ran
  frame,            \* the frame of the current loop iteration: its number in the stream
  pending,          \* len(results) not yet iterated by _process_events; the elements
                    \* of the list are inputs nothing reads before the loop reaches them
  res,              \* the loop variable of _process_events: the result being classified
  event,            \* the event dict being assembled by _process_events
  exc,              \* the exception in flight, "" when none
  escaped,          \* an exception left run()
  db,               \* rows of the event store, in insertion order
  origin,           \* per row of the store: the worker that inserted it, the number of
                    \* the frame it was read from and the results then still pending
  emitted,          \* per worker, the notifications its signals emitted, in order
  frames,           \* frames read so far, over all workers
  nresults          \* recognition results returned so far, over all frames

\* worker identities, in the order of construction: as many as a run constructs
Workers == 1 .. horizon.workers

poolVars == << channel_workers, mainPc, mainIdx, mainOp, channels, nworkers, horizon,
              delivered >>
localVars == << frame, pending, res, event >>
vars == << channel_workers, mainPc, mainIdx, mainOp, channels, nworkers, horizon, delivered,
           pc, running, channel_conf, capture, releases, frame, pending, res, event, exc,
           escaped, db, origin, emitted, frames, nresults >>

\* ------------------------------------------------------------------ Init
\* MainWindow.__init__: no workers yet
Constructed ==
  /\ channel_workers = <<>>
  /\ mainPc = "idle"
  /\ mainIdx = 0
  /\ mainOp = "none"
  /\ nworkers = 0
  /\ pc = [w \in Workers |-> "none"]
  /\ running = [w \in Workers |-> FALSE]
  /\ channel_conf = [w \in Workers |-> [name |-> "", source |-> ""]]
  /\ capture = [w \in Workers |-> "unset"]
  /\ releases = [w \in Workers |-> 0]
  /\ frame = [w \in Workers |-> 0]
  /\ pending = [w \in Workers |-> 0]
  /\ res = [w \in Workers |-> NoResult]
  /\ event = [w \in Workers |-> NoEvent]
  /\ exc = [w \in Workers |-> ""]
  /\ escaped = [w \in Workers |-> FALSE]
  /\ db = <<>>
  /\ origin = <<>>
  /\ delivered = [w \in Workers |-> 0]
  /\ emitted = [w \in Workers |-> <<>>]
  /\ frames = 0
  /\ nresults = 0

\* one start-all command over either channel list, then the window may close
Init ==
  /\ channels \in ChannelLists
  /\ horizon = [workers |-> Len(channels), frames |-> MaxFrames, results |-> MaxResults]
  /\ Constructed

\* ------------------------------------------------------- worker thread
\* positions of a worker that has opened its capture and not left the loop
StreamingPcs == {"loop", "read", "track", "process", "events", "insert", "emit", "frame"}
StartingPcs == {"build", "open"}

\* a signal whose notifications reach the receiver newest first
EmitFirst(w, note) == emitted' = [emitted EXCEPT ![w] = << note >> \o @]

\* an emit that returns only once the receiver has handled all that was emitted
EmitBlocking(w, note) ==
  /\ delivered[w] = Len(emitted[w])
  /\ emitted' = [emitted EXCEPT ![w] = Append(@, note)]

\* self.<signal>.emit(...): the notification is queued for the receiver's thread
Emit(w, note) == emitted' = [emitted EXCEPT ![w] = Append(@, note)]

\* an exception raised inside _loop unwinds to the handler of run()
Raise(w, cause) ==
  /\ pc' = [pc EXCEPT ![w] = "except"]
  /\ exc' = [exc EXCEPT ![w] = cause]

\* QThread.start() -> run() -> asyncio.run(self._loop())
Run(w) ==
  /\ pc[w] = "created"
  /\ pc' = [pc EXCEPT ![w] = "build"]
  /\ UNCHANGED << poolVars, localVars, running, channel_conf, capture, releases, exc,
                  escaped, db, origin, emitted, frames, nresults >>

\* pipeline, detector = await asyncio.to_thread(self._build_pipeline)
BuildPipeline(w) ==
  /\ pc[w] = "build"
  /\ \/ /\ pc' = [pc EXCEPT ![w] = "open"]
        /\ exc' = exc
     \/ Raise(w, "build")
  /\ UNCHANGED << poolVars, localVars, running, channel_conf, capture, releases,
                  escaped, db, origin, emitted, frames, nresults >>

\* capture = await asyncio.to_thread(self._open_capture, source), opened
OpenCaptureOk(w) ==
  /\ pc[w] = "open"
  /\ capture' = [capture EXCEPT ![w] = "open"]
  /\ pc' = [pc EXCEPT ![w] = "loop"]
  /\ UNCHANGED << poolVars, localVars, running, channel_conf, releases, exc,
                  escaped, db, origin, emitted, frames, nresults >>

\* OpenCaptureNone without the return: the loop is entered with capture None
OpenCaptureNoneNoReturn(w) ==
  /\ pc[w] = "open"
  /\ capture' = [capture EXCEPT ![w] = "null"]
  /\ Emit(w, StatusNote(ChannelName(channel_conf[w]), NoSignal))
  /\ pc' = [pc EXCEPT ![w] = "loop"]
  /\ UNCHANGED << poolVars, localVars, running, channel_conf, releases, exc,
                  escaped, db, origin, frames, nresults >>

\* an unavailable source handled by leaving through the release after the loop
OpenCaptureNoneReleases(w) ==
  /\ pc[w] = "open"
  /\ capture' = [capture EXCEPT ![w] = "null"]
  /\ Emit(w, StatusNote(ChannelName(channel_conf[w]), NoSignal))
  /\ pc' = [pc EXCEPT ![w] = "release"]
  /\ UNCHANGED << poolVars, localVars, running, channel_conf, releases, exc,
                  escaped, db, origin, frames, nresults >>

\* _open_capture returned None: "no signal" status, return
OpenCaptureNone(w) ==
  /\ pc[w] = "open"
  /\ capture' = [capture EXCEPT ![w] = "null"]
  /\ Emit(w, StatusNote(ChannelName(channel_conf[w]), NoSignal))
  /\ pc' = [pc EXCEPT ![w] = "stopped"]
  /\ UNCHANGED << poolVars, localVars, running, channel_conf, releases, exc,
                  escaped, db, origin, frames, nresults >>

\* _open_capture raised (int(source), cv2.VideoCapture)
OpenCaptureRaises(w) ==
  /\ pc[w] = "open"
  /\ Raise(w, "open")
  /\ UNCHANGED << poolVars, localVars, running, channel_conf, capture, releases,
                  escaped, db, origin, emitted, frames, nresults >>

\* a loop that never looks at the flag
LoopTestAlways(flag) == TRUE

\* while self._running
LoopTest(flag) == flag

LoopHead(w) ==
  /\ pc[w] = "loop"
  /\ pc' = [pc EXCEPT ![w] = IF LoopTest(running[w]) THEN "read" ELSE "release"]
  /\ UNCHANGED << poolVars, localVars, running, channel_conf, capture, releases, exc,
                  escaped, db, origin, emitted, frames, nresults >>

\* ret, frame = await asyncio.to_thread(capture.read), ret true
ReadFrame(w) ==
  /\ pc[w] = "read"
  /\ frames < horizon.frames
  /\ frames' = frames + 1
  /\ frame' = [frame EXCEPT ![w] = @ + 1]
  /\ pc' = [pc EXCEPT ![w] = "track"]
  /\ UNCHANGED << poolVars, pending, res, event, running, channel_conf, capture,
                  releases, exc, escaped, db, origin, emitted, nresults >>

\* an end of stream that releases the capture before the break
ReadEndReleases(w) ==
  /\ pc[w] = "read"
  /\ Emit(w, StatusNote(ChannelName(channel_conf[w]), StreamStopped))
  /\ capture' = [capture EXCEPT ![w] = "released"]
  /\ releases' = [releases EXCEPT ![w] = @ + 1]
  /\ pc' = [pc EXCEPT ![w] = "release"]
  /\ UNCHANGED << poolVars, localVars, running, channel_conf, exc,
                  escaped, db, origin, frames, nresults >>

\* an end of stream that reports the status and goes on with the loop (no break)
ReadEndContinues(w) ==
  /\ pc[w] = "read"
  /\ Emit(w, StatusNote(ChannelName(channel_conf[w]), StreamStopped))
  /\ pc' = [pc EXCEPT ![w] = "loop"]
  /\ UNCHANGED << poolVars, localVars, running, channel_conf, capture, releases, exc,
                  escaped, db, origin, frames, nresults >>

\* ret false: "stream stopped" status, break
ReadEnd(w) ==
  /\ pc[w] = "read"
  /\ Emit(w, StatusNote(ChannelName(channel_conf[w]), StreamStopped))
  /\ pc' = [pc EXCEPT ![w] = "release"]
  /\ UNCHANGED << poolVars, localVars, running, channel_conf, capture, releases, exc,
                  escaped, db, origin, frames, nresults >>

ReadRaises(w) ==
  /\ pc[w] = "read"
  /\ Raise(w, "read")
  /\ UNCHANGED << poolVars, localVars, running, channel_conf, capture, releases,
                  escaped, db, origin, emitted, frames, nresults >>

\* a detection step that gives the frame up when the stop flag is found cleared
TrackCancellable(w) ==
  /\ pc[w] = "track"
  /\ \/ /\ pc' = [pc EXCEPT ![w] = IF running[w] THEN "process" ELSE "release"]
        /\ exc' = exc
     \/ Raise(w, "track")
  /\ UNCHANGED << poolVars, localVars, running, channel_conf, capture, releases,
                  escaped, db, origin, emitted, frames, nresults >>

\* detections = await asyncio.to_thread(detector.track, frame)
Track(w) ==
  /\ pc[w] = "track"
  /\ \/ /\ pc' = [pc EXCEPT ![w] = "process"]
        /\ exc' = exc
     \/ Raise(w, "track")
  /\ UNCHANGED << poolVars, localVars, running, channel_conf, capture, releases,
                  escaped, db, origin, emitted, frames, nresults >>

\* results = await asyncio.to_thread(pipeline.process_frame, frame, detections)
ProcessFrame(w) ==
  /\ pc[w] = "process"
  /\ \E n \in 0 .. (horizon.results - nresults) :
       /\ pending' = [pending EXCEPT ![w] = n]
       /\ nresults' = nresults + n
  /\ pc' = [pc EXCEPT ![w] = "events"]
  /\ UNCHANGED << poolVars, frame, res, event, running, channel_conf, capture, releases,
                  exc, escaped, db, origin, emitted, frames >>

ProcessFrameRaises(w) ==
  /\ pc[w] = "process"
  /\ Raise(w, "process")
  /\ UNCHANGED << poolVars, localVars, running, channel_conf, capture, releases,
                  escaped, db, origin, emitted, frames, nresults >>

\* ------------------------------------------------------ _process_events
\* the flag overridden by a confidence threshold of the worker's own
UnreadableBelowThreshold(r) == r.unreadable /\ r.confidence < 50

\* if res.get("unreadable")
Unreadable(r) == r.unreadable

\* the text test joined with a confidence threshold of the worker's own
HasTextConfident(r) == r.text # "" /\ r.confidence >= 50

\* the text test left out
HasTextAlways(r) == TRUE

\* if res.get("text")
HasText(r) == r.text # ""

\* the event dict labelled from state shared by all workers: the first channel
AssembleEventShared(conf, source, r) ==
  [id |-> 0, channel |-> ChannelName(channels[1]), plate |-> r.text,
   confidence |-> r.confidence, source |-> SourceOf(channels[1])]

\* the event dict built from a result (the wall-clock timestamp is not modelled)
AssembleEvent(conf, source, r) ==
  [id |-> 0, channel |-> ChannelName(conf), plate |-> r.text,
   confidence |-> r.confidence, source |-> source]

\* the id the event store assigns to a new row
NextId(rows) == Len(rows) + 1

\* for res in results: one iteration, up to the insert, for the result r
Classify(w, r) ==
  /\ pc[w] = "events"
  /\ pending[w] > 0
  /\ pending' = [pending EXCEPT ![w] = @ - 1]
  /\ res' = [res EXCEPT ![w] = r]
  /\ IF Unreadable(r)
     THEN UNCHANGED << pc, event >>
     ELSE IF HasText(r)
     THEN /\ event' = [event EXCEPT ![w] =
                         AssembleEvent(channel_conf[w], SourceOf(channel_conf[w]), r)]
          /\ pc' = [pc EXCEPT ![w] = "insert"]
     ELSE UNCHANGED << pc, event >>
  /\ UNCHANGED << poolVars, frame, running, channel_conf, capture, releases, exc,
                  escaped, db, origin, emitted, frames, nresults >>

ClassifyResult(w) == \E r \in RecResults : Classify(w, r)

\* the for loop is exhausted: _process_events returns
EventsDone(w) ==
  /\ pc[w] = "events"
  /\ pending[w] = 0
  /\ res' = [res EXCEPT ![w] = NoResult]
  /\ pc' = [pc EXCEPT ![w] = "frame"]
  /\ UNCHANGED << poolVars, frame, pending, event, running, channel_conf, capture, releases, exc,
                  escaped, db, origin, emitted, frames, nresults >>

\* where a row comes from: the inserting worker, the frame of its current iteration
\* and the results of that frame the for loop has not reached yet
OriginOf(w) == [by |-> w, frame |-> frame[w], rest |-> pending[w]]

\* the insert without the assignment of the returned id to the event
InsertEventNoId(w) ==
  /\ pc[w] = "insert"
  /\ db' = Append(db, [event[w] EXCEPT !.id = NextId(db)])
  /\ origin' = Append(origin, OriginOf(w))
  /\ pc' = [pc EXCEPT ![w] = "emit"]
  /\ UNCHANGED << poolVars, localVars, running, channel_conf, capture,
                  releases, exc, escaped, emitted, frames, nresults >>

\* event["id"] = await storage.insert_event_async(...), returned
InsertEvent(w) ==
  /\ pc[w] = "insert"
  /\ LET id == NextId(db)
     IN /\ db' = Append(db, [event[w] EXCEPT !.id = id])
        /\ origin' = Append(origin, OriginOf(w))
        /\ event' = [event EXCEPT ![w].id = id]
  /\ pc' = [pc EXCEPT ![w] = "emit"]
  /\ UNCHANGED << poolVars, frame, pending, res, running, channel_conf, capture,
                  releases, exc, escaped, emitted, frames, nresults >>

\* the failure of the insert logged and dropped: the loop goes on
InsertRaisesMasked(w) ==
  /\ pc[w] = "insert"
  /\ event' = [event EXCEPT ![w] = NoEvent]
  /\ pc' = [pc EXCEPT ![w] = "events"]
  /\ UNCHANGED << poolVars, frame, pending, res, running, channel_conf, capture,
                  releases, exc, escaped, db, origin, emitted, frames, nresults >>

\* storage.insert_event_async raised
InsertRaises(w) ==
  /\ pc[w] = "insert"
  /\ Raise(w, "insert")
  /\ UNCHANGED << poolVars, localVars, running, channel_conf, capture, releases,
                  escaped, db, origin, emitted, frames, nresults >>

\* self.event_ready.emit(event), then the next iteration
EmitEvent(w) ==
  /\ pc[w] = "emit"
  /\ Emit(w, EventNote(event[w]))
  /\ event' = [event EXCEPT ![w] = NoEvent]
  /\ pc' = [pc EXCEPT ![w] = "events"]
  /\ UNCHANGED << poolVars, frame, pending, res, running, channel_conf, capture, releases, exc,
                  escaped, db, origin, frames, nresults >>

\* the frame update handed to a later moment: the loop goes on without the emit
EmitFrameDeferred(w) ==
  /\ pc[w] = "frame"
  /\ pc' = [pc EXCEPT ![w] = "loop"]
  /\ UNCHANGED << poolVars, localVars, running, channel_conf, capture,
                  releases, exc, escaped, db, origin, emitted, frames, nresults >>

\* q_image = QImage(...).copy(); self.frame_ready.emit(channel_name, q_image)
EmitFrame(w) ==
  /\ pc[w] = "frame"
  /\ Emit(w, FrameNote(ChannelName(channel_conf[w]), frame[w]))
  /\ pc' = [pc EXCEPT ![w] = "loop"]
  /\ UNCHANGED << poolVars, localVars, running, channel_conf, capture,
                  releases, exc, escaped, db, origin, frames, nresults >>

\* capture.release(), the last statement of _loop
Release(w) ==
  /\ pc[w] = "release"
  /\ capture' = [capture EXCEPT ![w] = "released"]
  /\ releases' = [releases EXCEPT ![w] = @ + 1]
  /\ pc' = [pc EXCEPT ![w] = "stopped"]
  /\ UNCHANGED << poolVars, localVars, running, channel_conf, exc, escaped, db, origin,
                  emitted, frames, nresults >>

\* a handler for the capture and model errors only: a store error passes it
CaughtNarrow(e) == e \in Causes \ {"insert"}

\* except Exception: every failure of a collaborator is an Exception
Caught(e) == e \in Causes

\* a handler that also clears the stop flag of every worker
ExceptStopsAll(w) ==
  /\ pc[w] = "except"
  /\ Emit(w, StatusNote(ChannelName(channel_conf[w]), ErrorText(exc[w])))
  /\ running' = [v \in Workers |-> FALSE]
  /\ pending' = [pending EXCEPT ![w] = 0]
  /\ res' = [res EXCEPT ![w] = NoResult]
  /\ event' = [event EXCEPT ![w] = NoEvent]
  /\ pc' = [pc EXCEPT ![w] = "stopped"]
  /\ UNCHANGED << poolVars, frame, channel_conf, capture, releases, exc, escaped, db, origin,
                  frames, nresults >>

\* a handler that runs _loop again instead of reporting the fault
ExceptRetries(w) ==
  /\ pc[w] = "except"
  /\ exc' = [exc EXCEPT ![w] = ""]
  /\ pending' = [pending EXCEPT ![w] = 0]
  /\ res' = [res EXCEPT ![w] = NoResult]
  /\ event' = [event EXCEPT ![w] = NoEvent]
  /\ pc' = [pc EXCEPT ![w] = "build"]
  /\ UNCHANGED << poolVars, frame, running, channel_conf, capture, releases, escaped,
                  db, origin, emitted, frames, nresults >>

\* the handler of run(): status with the cause; the locals of _loop are gone
Except(w) ==
  /\ pc[w] = "except"
  /\ IF Caught(exc[w])
     THEN /\ Emit(w, StatusNote(ChannelName(channel_conf[w]), ErrorText(exc[w])))
          /\ UNCHANGED escaped
     ELSE /\ escaped' = [escaped EXCEPT ![w] = TRUE]
          /\ UNCHANGED emitted
  /\ pending' = [pending EXCEPT ![w] = 0]
  /\ res' = [res EXCEPT ![w] = NoResult]
  /\ event' = [event EXCEPT ![w] = NoEvent]
  /\ pc' = [pc EXCEPT ![w] = "stopped"]
  /\ UNCHANGED << poolVars, frame, running, channel_conf, capture, releases, exc, db, origin,
                  frames, nresults >>

\* def stop(self): self._running = False
Stop(w) == running' = [running EXCEPT ![w] = FALSE]

\* one step of the thread of worker w
WorkerStep(w) ==
  \/ Run(w)
  \/ BuildPipeline(w)
  \/ OpenCaptureOk(w)
  \/ OpenCaptureNone(w)
  \/ OpenCaptureRaises(w)
  \/ LoopHead(w)
  \/ ReadFrame(w)
  \/ ReadEnd(w)
  \/ ReadRaises(w)
  \/ Track(w)
  \/ ProcessFrame(w)
  \/ ProcessFrameRaises(w)
  \/ ClassifyResult(w)
  \/ EventsDone(w)
  \/ InsertEvent(w)
  \/ InsertRaises(w)
  \/ EmitEvent(w)
  \/ EmitFrame(w)
  \/ Release(w)
  \/ Except(w)

\* ---------------------------------------------------------- main thread
\* a start that constructs the new workers without stopping the pooled ones first
StartChannelsNoStop ==
  /\ mainPc = "idle"
  /\ nworkers + Len(channels) <= horizon.workers
  /\ mainOp' = "start"
  /\ mainPc' = "start"
  /\ mainIdx' = 0
  /\ UNCHANGED << channel_workers, channels, nworkers, horizon, delivered, pc, running,
                  channel_conf, capture, releases, localVars, exc, escaped, db, origin,
                  emitted, frames, nresults >>

\* the "start" button: _start_channels begins with self._stop_workers()
StartChannels ==
  /\ mainPc = "idle"
  /\ nworkers + Len(channels) <= horizon.workers
  /\ mainOp' = "start"
  /\ mainPc' = "stop"
  /\ mainIdx' = 1
  /\ UNCHANGED << channel_workers, channels, nworkers, horizon, delivered, pc, running, channel_conf, capture,
                  releases, localVars, exc, escaped, db, origin, emitted, frames, nresults >>

\* closeEvent: self._stop_workers(); event.accept()
CloseEvent ==
  /\ mainPc = "idle"
  /\ mainOp' = "close"
  /\ mainPc' = "stop"
  /\ mainIdx' = 1
  /\ UNCHANGED << channel_workers, channels, nworkers, horizon, delivered, pc, running, channel_conf, capture,
                  releases, localVars, exc, escaped, db, origin, emitted, frames, nresults >>

\* _stop_workers, for worker in self.channel_workers: worker.stop()
StopWorker ==
  /\ mainPc = "stop"
  /\ mainIdx <= Len(channel_workers)
  /\ Stop(channel_workers[mainIdx])
  /\ mainPc' = "wait"
  /\ UNCHANGED << channel_workers, mainIdx, mainOp, channels, nworkers, horizon, delivered, pc,
                  channel_conf,
                  capture, releases, localVars, exc, escaped, db, origin, emitted, frames,
                  nresults >>

\* worker.wait() with no timeout: returns only once the thread has finished
WaitWorkerUnbounded ==
  /\ mainPc = "wait"
  /\ pc[channel_workers[mainIdx]] = "stopped"
  /\ mainIdx' = mainIdx + 1
  /\ mainPc' = "stop"
  /\ UNCHANGED << channel_workers, mainOp, channels, nworkers, horizon, delivered, pc,
                  running, channel_conf, capture, releases, localVars, exc, escaped,
                  db, origin, emitted, frames, nresults >>

\* worker.wait(1000) returns: the thread has finished, or the timeout elapsed
WaitWorker ==
  /\ mainPc = "wait"
  /\ mainIdx' = mainIdx + 1
  /\ mainPc' = "stop"
  /\ UNCHANGED << channel_workers, mainOp, channels, nworkers, horizon, delivered, pc, running,
                  channel_conf,
                  capture, releases, localVars, exc, escaped, db, origin, emitted, frames,
                  nresults >>

\* _stop_workers, after the loop: self.channel_workers = []
StopWorkersDone ==
  /\ mainPc = "stop"
  /\ mainIdx > Len(channel_workers)
  /\ channel_workers' = <<>>
  /\ mainPc' = IF mainOp = "start" THEN "start" ELSE "closed"
  /\ mainIdx' = 0
  /\ UNCHANGED << mainOp, channels, nworkers, horizon, delivered, pc, running, channel_conf, capture,
                  releases, localVars, exc, escaped, db, origin, emitted, frames, nresults >>

\* for channel_conf in self.settings.get_channels(): ChannelWorker(...), connect,
\* append, worker.start()
StartWorkers ==
  /\ mainPc = "start"
  /\ LET new == [k \in 1 .. Len(channels) |-> nworkers + k]
         ids == {new[k] : k \in 1 .. Len(channels)}
     IN /\ channel_workers' = new
        /\ pc' = [w \in Workers |-> IF w \in ids THEN "created" ELSE pc[w]]
        /\ running' = [w \in Workers |-> IF w \in ids THEN TRUE ELSE running[w]]
        /\ channel_conf' = [w \in Workers |->
                              IF w \in ids THEN channels[w - nworkers] ELSE channel_conf[w]]
  /\ nworkers' = nworkers + Len(channels)
  /\ mainPc' = "idle"
  /\ mainOp' = "none"
  /\ UNCHANGED << mainIdx, channels, horizon, delivered, capture, releases, localVars, exc, escaped,
                  db, origin, emitted, frames, nresults >>

MainStep ==
  \/ StartChannels
  \/ CloseEvent
  \/ StopWorker
  \/ WaitWorker
  \/ StopWorkersDone
  \/ StartWorkers

Next ==
  \/ MainStep
  \/ \E w \in Workers : WorkerStep(w)

Spec == Init /\ [][Next]_vars

\* ------------------------------------------------------------ liveness
\* a frame read beyond the frames the run records: with no detection in it the
\* iteration leaves no event, and the loop is back at its test
ReadBeyond(w) ==
  /\ pc[w] = "read"
  /\ frames = horizon.frames
  /\ pc' = [pc EXCEPT ![w] = "loop"]
  /\ UNCHANGED << poolVars, localVars, running, channel_conf, capture, releases, exc,
                  escaped, db, origin, emitted, frames, nresults >>

LiveNext ==
  \/ Next
  \/ \E w \in Workers : ReadBeyond(w)

\* the worker identities of a run of one start-all command
LiveWorkers == 1 .. Len(AllChannels)

\* every started thread is scheduled again and every call it awaits returns or raises
Fairness ==
  \A w \in LiveWorkers : WF_vars(w \in Workers /\ (WorkerStep(w) \/ ReadBeyond(w)))

\* as Init; the frames after the first MaxLiveFrames are read by ReadBeyond
LiveInit ==
  /\ channels \in ChannelLists
  /\ horizon = [workers |-> Len(channels), frames |-> MaxLiveFrames,
                results |-> MaxLiveResults]
  /\ Constructed

LiveSpec == LiveInit /\ [][LiveNext]_vars /\ Fairness

\* ------------------------------------------------------------ the sink
\* the event loop of the window runs a connected slot (_update_frame, _handle_event
\* or _handle_status) on the oldest notification of worker w not yet handled; it
\* does so only between handlers, never while _stop_workers waits for a thread
Deliver(w) ==
  /\ mainPc = "idle"
  /\ delivered[w] < Len(emitted[w])
  /\ delivered' = [delivered EXCEPT ![w] = @ + 1]
  /\ UNCHANGED << channel_workers, mainPc, mainIdx, mainOp, channels, nworkers, horizon,
                  pc, running, channel_conf, capture, releases, localVars, exc, escaped,
                  db, origin, emitted, frames, nresults >>

SinkNext ==
  \/ LiveNext
  \/ \E w \in Workers : Deliver(w)

\* one start-all command over the one channel Gate1, then the window may close
SinkInit ==
  /\ channels = << Gate1 >>
  /\ horizon = [workers |-> 1, frames |-> MaxLiveFrames, results |-> MaxLiveResults]
  /\ Constructed

\* the threads of the workers are scheduled fairly; nothing is assumed of the sink
SinkSpec == SinkInit /\ [][SinkNext]_vars /\ Fairness

\* ------------------------------------------------------------ the pool
\* up to MaxCycles start-all commands over the one channel Gate1
PoolInit ==
  /\ channels = << Gate1 >>
  /\ horizon = [workers |-> MaxCycles, frames |-> MaxPoolFrames,
                results |-> MaxPoolResults]
  /\ Constructed

\* the window stays open: the start button is the only command
PoolNext ==
  \/ StartChannels
  \/ StopWorker
  \/ WaitWorker
  \/ StopWorkersDone
  \/ StartWorkers
  \/ \E w \in Workers : WorkerStep(w)

PoolSpec == PoolInit /\ [][PoolNext]_vars

\* ------------------------------------------------------------- helpers
Last(seq) == seq[Len(seq)]

\* the notifications of one kind a worker emitted
NotesOf(w, kind) == { i \in 1 .. Len(emitted[w]) : emitted[w][i].kind = kind }

\* the event notifications carrying the id i, over all workers
EventNotes(i) ==
  UNION { { << w, k >> : k \in { j \in NotesOf(w, "event") : emitted[w][j].event.id = i } } :
          w \in Workers }

Qualifies(r) == ~r.unreadable /\ r.text # ""

\* every row of the store carrying the channel name and source of worker w
RowsOf(w) ==
  { i \in 1 .. Len(db) : /\ db[i].channel = ChannelName(channel_conf[w])
                         /\ db[i].source = SourceOf(channel_conf[w]) }

\* ---------------------------------------------------------------- claims
\* C1: a worker whose source could not be opened (open returned None) has emitted
\* exactly one notification, the "no signal" status of its own channel; it has
\* persisted no event and emitted no event and no frame notification, has read no
\* frame, and is Stopped without having been in the streaming loop.
C1_SourceUnavailable ==
  \A w \in Workers :
    capture[w] = "null" =>
      /\ pc[w] = "stopped"
      /\ emitted[w] = << StatusNote(ChannelName(channel_conf[w]), NoSignal) >>
      /\ NotesOf(w, "event") = {} /\ NotesOf(w, "frame") = {}
      /\ RowsOf(w) = {}
      /\ frame[w] = 0 /\ releases[w] = 0 /\ exc[w] = "" /\ ~escaped[w]

\* a worker of channel Gate2 stopped on an unavailable source while the other streams
C1_Witness ==
  \E w, v \in Workers :
    /\ capture[w] = "null" /\ pc[w] = "stopped"
    /\ channel_conf[w] = Gate2
    /\ v # w /\ pc[v] = "emit"

\* C2 (as claimed): no worker is Stopped with an opened, unreleased capture
C2_ReleaseOnEveryExit ==
  \A w \in Workers : pc[w] = "stopped" => capture[w] # "open"

\* C3: a failure of any collaborator call, in Starting or in Streaming, goes to the
\* handler of run() and nowhere else: it never leaves run(), and once the worker is
\* Stopped the last notification it emitted is the status of its own channel that
\* carries the cause, and it is the only status it emitted.
C3_FaultCaught ==
  \A w \in Workers :
    /\ ~escaped[w]
    /\ exc[w] # "" =>
         /\ exc[w] \in Causes
         /\ pc[w] \in {"except", "stopped"}
         /\ pc[w] = "stopped" =>
              /\ emitted[w] # <<>>
              /\ Last(emitted[w]) = StatusNote(ChannelName(channel_conf[w]), ErrorText(exc[w]))
              /\ Cardinality(NotesOf(w, "status")) = 1

\* one worker faulted in Starting, the other on the insert, both are Stopped
C3_Witness ==
  \E w, v \in Workers :
    /\ pc[w] = "stopped" /\ exc[w] = "build"
    /\ pc[v] = "stopped" /\ exc[v] = "insert"

\* everything a worker owns is as before the step
Untouched(v) ==
  /\ pc'[v] = pc[v] /\ running'[v] = running[v] /\ channel_conf'[v] = channel_conf[v]
  /\ capture'[v] = capture[v] /\ releases'[v] = releases[v] /\ frame'[v] = frame[v]
  /\ pending'[v] = pending[v] /\ res'[v] = res[v] /\ event'[v] = event[v]
  /\ exc'[v] = exc[v] /\ escaped'[v] = escaped[v] /\ emitted'[v] = emitted[v]

\* C4: a step of one worker (a fault, an unavailable source and an end of stream
\* included) leaves the position, stop flag, capture and every other field of every
\* other worker as they were, and a worker that is started and not Stopped always
\* has a next step, whatever the other workers have done.
C4_Isolation ==
  /\ [](\A v \in Workers : pc[v] \notin {"none", "stopped"} => ENABLED WorkerStep(v))
  /\ [][\A w \in Workers : WorkerStep(w) => \A v \in Workers \ {w} : Untouched(v)]_vars

\* one worker faulted while the other is about to notify an event it persisted
C4_Witness ==
  \E w, v \in Workers :
    /\ w # v
    /\ pc[w] = "stopped" /\ exc[w] = "track"
    /\ pc[v] = "emit" /\ Len(db) = 1

\* C5: classifying a result whose unreadable flag is set changes neither the store
\* nor any notification and leaves the worker at the next result, whatever the
\* confidence and the text of the result; the result a worker is persisting or
\* notifying is never an unreadable one.
C5_UnreadableDiscarded ==
  /\ [](\A w \in Workers : pc[w] \in {"insert", "emit"} => ~res[w].unreadable)
  /\ [][\A w \in Workers :
          (ClassifyResult(w) /\ res'[w].unreadable) =>
            /\ db' = db /\ emitted' = emitted
            /\ pc'[w] = "events" /\ event'[w] = NoEvent]_vars

\* an unreadable result with a text and a high confidence was classified; nothing
\* is persisted and nothing is notified
C5_Witness ==
  \E w \in Workers :
    /\ pc[w] = "events" /\ res[w].unreadable
    /\ res[w].text # "" /\ res[w].confidence = 92
    /\ db = <<>> /\ emitted[w] = <<>>

\* the row the store holds for the event of worker w once its insert returned
RowFor(w) ==
  [id |-> Len(db) + 1, channel |-> ChannelName(channel_conf[w]), plate |-> res[w].text,
   confidence |-> res[w].confidence, source |-> SourceOf(channel_conf[w])]

\* the store changes only by one row, built from the qualifying result a worker is at
OnlyQualifiedPersisted ==
  db' # db =>
    \E w \in Workers :
      /\ pc[w] = "insert" /\ pc'[w] = "emit"
      /\ Qualifies(res[w])
      /\ db' = Append(db, RowFor(w))

\* classification sends exactly the qualifying results to the insert, each once
QualifiedGoToInsert ==
  \A w \in Workers :
    /\ ClassifyResult(w) =>
         /\ db' = db
         /\ pc'[w] = IF Qualifies(res'[w]) THEN "insert" ELSE "events"
    /\ (pc'[w] = "insert" /\ pc[w] # "insert") => ClassifyResult(w)

\* C6 (as claimed): an event is persisted if and only if a result with unreadable
\* false and a non-empty text was classified; every such result yields exactly one
\* persisted event.
C6_EventIffQualified ==
  [][/\ OnlyQualifiedPersisted
     /\ QualifiedGoToInsert
     /\ \A w \in Workers :
          (pc[w] = "insert" /\ pc'[w] # "insert") => Len(db') = Len(db) + 1]_vars

\* C6 (amended): every persisted event comes from a classified result with unreadable
\* false and a non-empty text; every such result is handed to the insert exactly once
\* and yields exactly one persisted event when the insert returns, and none, with the
\* worker faulting, when the insert fails; no other result reaches the insert.
C6_EventIffQualifiedAndInserted ==
  [][/\ OnlyQualifiedPersisted
     /\ QualifiedGoToInsert
     /\ \A w \in Workers :
          (pc[w] = "insert" /\ pc'[w] # "insert") =>
            \/ Len(db') = Len(db) + 1 /\ pc'[w] = "emit"
            \/ db' = db /\ pc'[w] = "except" /\ exc'[w] = "insert"]_vars

\* one worker persisted the event of a qualifying result, the insert of the other failed
C6_Witness ==
  \E w, v \in Workers :
    /\ pc[w] = "emit" /\ Qualifies(res[w]) /\ db = << event[w] >>
    /\ pc[v] = "except" /\ exc[v] = "insert"

\* C7: every event notification carries an id the store assigned and equals the row
\* of that id, so it was emitted after the insert returned; every row has exactly one
\* notification, except the row a worker has just inserted and is about to notify,
\* which has none yet.
C7_NotifiedOncePersisted ==
  /\ \A w \in Workers : \A k \in NotesOf(w, "event") :
       /\ emitted[w][k].event.id \in 1 .. Len(db)
       /\ db[emitted[w][k].event.id] = emitted[w][k].event
  /\ \A i \in 1 .. Len(db) :
       /\ db[i].id = i
       /\ Cardinality(EventNotes(i)) =
            IF \E w \in Workers : pc[w] = "emit" /\ event[w].id = i THEN 0 ELSE 1

\* two events are persisted and both are notified
C7_Witness ==
  /\ Len(db) = 2
  /\ Cardinality(EventNotes(1)) = 1 /\ Cardinality(EventNotes(2)) = 1

\* C8: a step that leaves the insert either persisted the event or raised the
\* failure to the handler of run(), changing neither store nor notifications; from
\* then on the worker emits nothing but the fault status carrying the cause for its
\* channel, never an event notification without a row, and it never streams again.
C8_InsertFailureFaults ==
  /\ [](\A w \in Workers :
          /\ \A k \in NotesOf(w, "event") : emitted[w][k].event.id \in 1 .. Len(db)
          /\ exc[w] = "insert" =>
               /\ pc[w] \in {"except", "stopped"}
               /\ pc[w] = "stopped" =>
                    /\ emitted[w] # <<>>
                    /\ Last(emitted[w]) =
                         StatusNote(ChannelName(channel_conf[w]), ErrorText("insert")))
  /\ [][\A w \in Workers :
          /\ (pc[w] = "insert" /\ pc'[w] # "insert") =>
               \/ Len(db') = Len(db) + 1 /\ pc'[w] = "emit"
               \/ /\ pc'[w] = "except" /\ exc'[w] = "insert"
                  /\ db' = db /\ emitted' = emitted
          /\ exc[w] = "insert" =>
               /\ exc'[w] = "insert"
               /\ \/ emitted'[w] = emitted[w]
                  \/ /\ pc[w] = "except" /\ pc'[w] = "stopped"
                     /\ emitted'[w] =
                          Append(emitted[w],
                                 StatusNote(ChannelName(channel_conf[w]), ErrorText("insert")))]_vars

\* a worker persisted one event, then an insert failed and it is Stopped
C8_Witness ==
  \E w \in Workers :
    /\ pc[w] = "stopped" /\ exc[w] = "insert"
    /\ Cardinality(RowsOf(w)) = 1 /\ Cardinality(NotesOf(w, "event")) = 1

\* C9: under fair scheduling, with every awaited call returning or raising, a worker
\* in the streaming loop whose stop flag has been cleared eventually is Stopped,
\* also on a stream that never ends.
C9_StopReachesStopped ==
  \A w \in LiveWorkers :
    (w \in Workers /\ ~running[w] /\ pc[w] \in StreamingPcs)
      ~> (w \in Workers /\ pc[w] = "stopped")

\* a worker that read a frame left the loop on the stop flag alone and is Stopped
C9_Witness ==
  \E w \in Workers :
    /\ pc[w] = "stopped" /\ ~running[w] /\ exc[w] = ""
    /\ frame[w] > 0 /\ NotesOf(w, "status") = {}

\* C10: the capture is never released twice, and a worker that opened its capture
\* and left the loop without a fault (on the stop flag, on an end of stream, or on
\* both at once) is Stopped with the capture released exactly once.
C10_ReleasedOnce ==
  \A w \in Workers :
    /\ releases[w] <= 1
    /\ (capture[w] = "released") = (releases[w] = 1)
    /\ (pc[w] = "stopped" /\ exc[w] = "" /\ capture[w] # "null") =>
         releases[w] = 1

\* stop was requested and the stream ended in the same iteration: released once
C10_Witness ==
  \E w \in Workers :
    /\ pc[w] = "stopped" /\ ~running[w] /\ releases[w] = 1
    /\ emitted[w] # <<>>
    /\ Last(emitted[w]) = StatusNote(ChannelName(channel_conf[w]), StreamStopped)

\* C11: a worker whose read reported the end of the stream has emitted the "stream
\* stopped" status of its own channel exactly once and as its last notification; it
\* is past the loop, Stopped only with the capture released once and without a
\* fault, and from then on it emits nothing, reads no frame and persists no event.
C11_EndOfStream ==
  /\ [](\A w \in Workers :
         NotesOf(w, "status") # {} /\ exc[w] = "" /\ capture[w] # "null" =>
           /\ Cardinality(NotesOf(w, "status")) = 1
           /\ Last(emitted[w]) = StatusNote(ChannelName(channel_conf[w]), StreamStopped)
           /\ pc[w] \in {"release", "stopped"}
           /\ pc[w] = "stopped" => capture[w] = "released" /\ releases[w] = 1)
  /\ [][\A w \in Workers :
         (emitted[w] # <<>> /\ Last(emitted[w]).text = StreamStopped) =>
           /\ emitted'[w] = emitted[w]
           /\ frame'[w] = frame[w]
           /\ RowsOf(w)' = RowsOf(w)
           /\ pc'[w] \in {"release", "stopped"}]_vars

\* a worker that emitted two frames met the end of the stream, with no stop
\* requested, and is Stopped
C11_Witness ==
  \E w \in Workers :
    /\ pc[w] = "stopped" /\ running[w] /\ frame[w] = 2
    /\ Cardinality(NotesOf(w, "frame")) = 2
    /\ Last(emitted[w]) = StatusNote(ChannelName(channel_conf[w]), StreamStopped)
    /\ releases[w] = 1

\* the result behind the first row was reached by its worker before the result
\* behind the second: in an earlier frame, or earlier in the results of one frame
ReachedBefore(o1, o2) ==
  \/ o1.frame < o2.frame
  \/ o1.frame = o2.frame /\ o1.rest > o2.rest

\* C12: within one channel the events are persisted and notified in the order in
\* which their frames were read and, within one frame, in the order of the
\* recognition results: of two rows of one worker the one whose result was reached
\* first was inserted first, its notification was emitted before the other row
\* was inserted, and the notifications stand in the same order.
C12_ChannelOrder ==
  \A i, j \in 1 .. Len(db) :
    (i # j /\ origin[i].by = origin[j].by) =>
      /\ ReachedBefore(origin[i], origin[j]) \/ ReachedBefore(origin[j], origin[i])
      /\ ReachedBefore(origin[i], origin[j]) =>
           /\ i < j
           /\ \E k \in NotesOf(origin[i].by, "event") :
                emitted[origin[i].by][k].event.id = db[i].id
           /\ \A k, l \in NotesOf(origin[i].by, "event") :
                (/\ emitted[origin[i].by][k].event.id = db[i].id
                 /\ emitted[origin[i].by][l].event.id = db[j].id) => k < l

\* one worker persisted and notified an event of its first frame and then one of
\* its second frame
C12_Witness ==
  /\ Len(db) = 2
  /\ origin[1].by = origin[2].by
  /\ origin[1].frame = 1 /\ origin[2].frame = 2
  /\ Cardinality(NotesOf(origin[1].by, "event")) = 2

\* C13: with the workers of distinct channels running concurrently, every row of
\* the store and every event notification carries the channel name and the source
\* of the worker that classified it, a worker notifies only events it inserted
\* itself, and no two events share an id.
C13_NoCrossChannel ==
  /\ \A i \in 1 .. Len(db) :
       /\ db[i].channel = ChannelName(channel_conf[origin[i].by])
       /\ db[i].source = SourceOf(channel_conf[origin[i].by])
       /\ \A j \in 1 .. Len(db) : i # j => db[i].id # db[j].id
  /\ \A w \in Workers : \A k \in NotesOf(w, "event") :
       /\ emitted[w][k].event.channel = ChannelName(channel_conf[w])
       /\ emitted[w][k].event.source = SourceOf(channel_conf[w])
       /\ emitted[w][k].event.id \in 1 .. Len(db)
       /\ origin[emitted[w][k].event.id].by = w
       /\ \A v \in Workers : \A l \in NotesOf(v, "event") :
            << w, k >> # << v, l >> => emitted[w][k].event.id # emitted[v][l].event.id

\* the workers of Gate1 and Gate2 each persisted and notified one event, neither
\* of them Stopped
C13_Witness ==
  \E w, v \in Workers :
    /\ channel_conf[w] = Gate1 /\ channel_conf[v] = Gate2
    /\ pc[w] \in StreamingPcs /\ pc[v] \in StreamingPcs
    /\ Len(db) = 2 /\ origin[1].by # origin[2].by
    /\ Cardinality(NotesOf(w, "event")) = 1 /\ Cardinality(NotesOf(v, "event")) = 1

\* C14: the global stop requests stop on every worker of the pool and always
\* completes: inside _stop_workers every worker the loop has passed has its stop
\* flag cleared, each step of the loop is enabled whatever state the workers are
\* in (the wait returns also when the worker is not Stopped), and when the loop
\* is done the pool is empty and every worker that was in it has been asked to stop.
C14_StopAll ==
  /\ mainPc \in {"stop", "wait"} =>
       \A i \in 1 .. Len(channel_workers) :
         (i < mainIdx \/ (i = mainIdx /\ mainPc = "wait")) => ~running[channel_workers[i]]
  /\ mainPc = "stop" => ENABLED (StopWorker \/ StopWorkersDone)
  /\ mainPc = "wait" => ENABLED WaitWorker
  /\ mainPc \in {"start", "closed"} =>
       /\ channel_workers = <<>>
       /\ \A w \in Workers : pc[w] # "none" => ~running[w]

\* the window closed on a pool of two workers and the pool is empty, while one
\* worker is still processing a frame (its wait timed out) and the other has not
\* even started to run
C14_Witness ==
  /\ mainPc = "closed" /\ channel_workers = <<>> /\ nworkers = 2
  /\ \E w, v \in Workers :
       /\ pc[w] \in {"track", "process", "events", "insert", "emit", "frame"}
       /\ pc[v] = "created"

Active(w) == pc[w] \notin {"none", "stopped"}

\* C17 (as claimed): whatever start-all commands were given, and also after a stop
\* whose wait timed out, no two workers that are not Stopped belong to one channel
C17_OneActivePerChannel ==
  \A w, v \in Workers :
    (w # v /\ Active(w) /\ Active(v)) =>
      ChannelName(channel_conf[w]) # ChannelName(channel_conf[v])

\* the notifications of worker w that no slot has handled yet
Backlog(w) == Len(emitted[w]) - delivered[w]

\* C16: emitting never blocks the worker. Whatever part of its notifications the
\* sink has handled, a worker that is not Stopped has a step enabled; and with the
\* threads scheduled fairly and nothing assumed of the sink, a streaming worker
\* that was asked to stop while notifications of it were unhandled is
\* eventually Stopped.
C16_EmitNeverBlocks ==
  /\ [](\A w \in Workers :
         (Active(w) /\ Backlog(w) > 0) => ENABLED (WorkerStep(w) \/ ReadBeyond(w)))
  /\ \A w \in LiveWorkers :
       (w \in Workers /\ ~running[w] /\ pc[w] \in StreamingPcs /\ Backlog(w) > 0)
         ~> (w \in Workers /\ pc[w] = "stopped")

\* the window closed when one of the two notifications of a worker had been
\* handled; the other one never will be, and the worker is Stopped
C16_Witness ==
  \E w \in Workers :
    /\ mainPc = "closed"
    /\ pc[w] = "stopped" /\ ~running[w] /\ exc[w] = ""
    /\ delivered[w] = 1 /\ Len(emitted[w]) = 2

\* the lifecycle state a position of the worker's thread belongs to
Lifecycle(p) ==
  CASE p = "none" -> "Absent"
    [] p = "created" -> "Created"
    [] p \in StartingPcs -> "Starting"
    [] p \in StreamingPcs -> "Streaming"
    [] p = "release" -> "Stopping"
    [] p = "except" -> "Faulted"
    [] p = "stopped" -> "Stopped"

LifecycleSteps ==
  { << "Absent", "Created" >>, << "Created", "Starting" >>, << "Starting", "Streaming" >>,
    << "Streaming", "Stopping" >>, << "Stopping", "Stopped" >>,
    << "Starting", "Faulted" >>, << "Streaming", "Faulted" >>, << "Faulted", "Stopped" >>,
    << "Starting", "Stopped" >> }

\* C18: a worker changes its lifecycle state only along Created -> Starting ->
\* Streaming -> Stopping -> Stopped, Starting or Streaming -> Faulted -> Stopped,
\* and Starting -> Stopped, the last only when the source could not be opened;
\* Stopped is terminal: a Stopped worker stays Stopped, reads no frame, persists no
\* event and emits no notification.
C18_Lifecycle ==
  [][\A w \in Workers :
      /\ Lifecycle(pc'[w]) # Lifecycle(pc[w]) =>
           /\ << Lifecycle(pc[w]), Lifecycle(pc'[w]) >> \in LifecycleSteps
           /\ (pc[w] \in StartingPcs /\ pc'[w] = "stopped") => capture'[w] = "null"
      /\ pc[w] = "stopped" =>
           /\ pc'[w] = "stopped"
           /\ frame'[w] = frame[w]
           /\ emitted'[w] = emitted[w]
           /\ \A i \in 1 .. Len(db') : i > Len(db) => origin'[i].by # w]_vars

\* one worker of the pool went Created, Starting, Streaming, Faulted, Stopped; the
\* other went through Stopping after an end of stream and is Stopped as well
C18_Witness ==
  \E w, v \in Workers :
    /\ pc[w] = "stopped" /\ exc[w] = "track" /\ frame[w] = 1
    /\ pc[v] = "stopped" /\ exc[v] = "" /\ releases[v] = 1 /\ running[v]

\* the order of the stages of one loop iteration, as pairs of positions
StageOrder ==
  { << "loop", "read" >>, << "read", "track" >>, << "track", "process" >>,
    << "process", "events" >>, << "events", "insert" >>, << "insert", "emit" >>,
    << "emit", "events" >>, << "events", "frame" >>, << "frame", "loop" >> }

\* the frame notifications of worker w among its first k notifications
FramesBefore(w, k) == Cardinality({ j \in NotesOf(w, "frame") : j < k })

\* C19: the stages of a frame run one after the other, in the order read,
\* detect/track, recognize, persist and notify the events of the frame, emit the
\* frame update, and frames are not pipelined: inside the loop a worker moves only
\* along this order; when it is about to read, the update of every frame it has
\* read was emitted, and while a frame is in the pipeline only the update of that
\* frame is outstanding; the updates carry the frames in the order read, and the
\* events of a frame are notified after the update of the frame before it and
\* before its own.
C19_StagesInSequence ==
  /\ [][\A w \in Workers :
          (pc[w] \in StreamingPcs /\ pc'[w] \in StreamingPcs /\ pc'[w] # pc[w]) =>
            << pc[w], pc'[w] >> \in StageOrder]_vars
  /\ [](\A w \in Workers :
          /\ pc[w] \in {"loop", "read"} =>
               Cardinality(NotesOf(w, "frame")) = frame[w]
          /\ pc[w] \in StreamingPcs \ {"loop", "read"} =>
               Cardinality(NotesOf(w, "frame")) = frame[w] - 1
          /\ \A k \in NotesOf(w, "frame") :
               emitted[w][k].image = FramesBefore(w, k) + 1
          /\ \A k \in NotesOf(w, "event") :
               origin[emitted[w][k].event.id].frame = FramesBefore(w, k) + 1)

\* a worker is about to read its third frame: two updates emitted, with the event
\* of the first frame notified before the first update and the event of the
\* second frame between the two updates
C19_Witness ==
  \E w \in Workers :
    /\ pc[w] = "read" /\ frame[w] = 2
    /\ Len(emitted[w]) = 4
    /\ emitted[w][1].kind = "event" /\ emitted[w][2].kind = "frame"
    /\ emitted[w][3].kind = "event" /\ emitted[w][4].kind = "frame"

\* the positions of a worker with a frame in the pipeline
MidFrame == StreamingPcs \ {"loop", "read"}

\* C20: stop is cooperative with the granularity of one frame. The stop flag,
\* once cleared, stays cleared; it is looked at by the loop test alone, which then
\* sends the worker to the release; a read is started only by a loop test that
\* found the flag set, and a frame is read only by such a read, so after the stop
\* request the worker starts no read except the one it may already have been sent
\* to; and with the flag cleared a frame in the pipeline goes through the
\* remaining stages (or faults): the loop is left for the release only from the
\* loop test or from a read, with every frame read having its events persisted and
\* notified and its update emitted.
C20_CooperativeStop ==
  [][\A w \in Workers :
      /\ (pc[w] # "none" /\ ~running[w]) => ~running'[w]
      /\ (pc[w] = "loop" /\ ~running[w] /\ pc'[w] # "loop") => pc'[w] = "release"
      /\ (pc'[w] = "read" /\ pc[w] # "read") => pc[w] = "loop" /\ running[w]
      /\ frame'[w] # frame[w] =>
           pc[w] = "read" /\ pc'[w] = "track" /\ frame'[w] = frame[w] + 1
      /\ (~running[w] /\ pc[w] \in MidFrame /\ pc'[w] # pc[w]) =>
           << pc[w], pc'[w] >> \in StageOrder \/ pc'[w] = "except"
      /\ (pc'[w] = "release" /\ pc[w] # "release") =>
           /\ pc[w] \in {"loop", "read"}
           /\ Cardinality(NotesOf(w, "frame")) = frame[w]
           /\ pending[w] = 0 /\ event[w] = NoEvent]_vars

\* the stop flag of a worker is cleared and the main thread waits for it, while
\* its first frame is in the pipeline: the worker is about to persist the event of
\* that frame
C20_Witness ==
  \E w \in Workers :
    /\ ~running[w] /\ pc[w] = "insert" /\ frame[w] = 1
    /\ Qualifies(res[w]) /\ db = <<>> /\ emitted[w] = <<>>
    /\ mainPc = "wait" /\ channel_workers[mainIdx] = w

\* C21: the worker filters nothing by confidence. Wherever a worker is about to
\* classify a result, two results that agree on the unreadable flag and on the text
\* and differ in confidence alone lead to the same decision (both go to the insert
\* or neither does); the event being persisted or notified carries the text of the
\* result as plate and its confidence unchanged, and so does the row inserted for it.
C21_NoConfidenceFilter ==
  \A w \in Workers :
    /\ (pc[w] = "events" /\ pending[w] > 0) =>
         \A r \in RecResults : \A c \in Confidences :
           (ENABLED (Classify(w, r) /\ pc'[w] = "insert"))
             = (ENABLED (Classify(w, [r EXCEPT !.confidence = c]) /\ pc'[w] = "insert"))
    /\ pc[w] \in {"insert", "emit"} =>
         /\ event[w].plate = res[w].text
         /\ event[w].confidence = res[w].confidence
    /\ pc[w] = "emit" =>
         /\ event[w].id \in 1 .. Len(db)
         /\ origin[event[w].id].by = w
         /\ db[event[w].id].plate = res[w].text
         /\ db[event[w].id].confidence = res[w].confidence

\* two results with the same text, one of confidence 30 and one of confidence 92,
\* were both persisted and notified by one worker
C21_Witness ==
  \E w \in Workers :
    /\ Len(db) = 2 /\ origin[1].by = w /\ origin[2].by = w
    /\ db[1].plate = db[2].plate
    /\ db[1].confidence = 30 /\ db[2].confidence = 92
    /\ Cardinality(NotesOf(w, "event")) = 2

\* C22: the capture is used only within its lifetime. A worker that is about to
\* read, or anywhere in the loop, holds a capture that was opened and is not
\* released; a worker about to release holds an opened, unreleased capture; a
\* worker has read a frame only from a capture it opened, and a capture that was
\* never opened (the open not yet done, or the source unavailable) was never
\* read and never released.
C22_CaptureLifetime ==
  \A w \in Workers :
    /\ pc[w] \in StreamingPcs \cup {"release"} => capture[w] = "open"
    /\ frame[w] > 0 => capture[w] \in {"open", "released"}
    /\ releases[w] > 0 => capture[w] = "released" /\ pc[w] = "stopped"
    /\ capture[w] \in {"unset", "null"} => frame[w] = 0 /\ releases[w] = 0
    /\ capture[w] = "open" => pc[w] \in StreamingPcs \cup {"release", "except", "stopped"}

\* one worker is about to read its second frame from its open capture while the
\* source of the other worker was unavailable: nothing was read or released there
C22_Witness ==
  \E w, v \in Workers :
    /\ pc[w] = "read" /\ frame[w] = 1 /\ capture[w] = "open" /\ releases[w] = 0
    /\ v # w /\ capture[v] = "null" /\ pc[v] = "stopped"

====
